---- MODULE Spec2Model ----
(***************************************************************************)
(* A model of maze_solver/solve.py: the border-opening locator, the A*     *)
(* search with its priority queue, the backward trace, the budget filter   *)
(* of find_paths, the selection and rendering of solve, and the tier loop  *)
(* of main.                                                                *)
(*                                                                         *)
(* A maze is a sequence of rows, a row a sequence of one-character         *)
(* strings.  A point is <<row, col>> with the 0-based indices of the code, *)
(* so the cell of point p is maze_map[p[1] + 1][p[2] + 1].                 *)
(***************************************************************************)
EXTENDS Integers, Sequences, FiniteSets, TLC

\* solve.py:19-21, and the two other glyphs of the program
SPACE == " "
START == "^"
EXIT == "E"
WALL == "#"
\* the visited marker "█" written by solve
VISITED == "U+2588"
\* Python's None, the value of the exit point in a traced path
None == <<>>

Abs(x) == IF x < 0 THEN -x ELSE x

Cell(maze_map, point) == maze_map[point[1] + 1][point[2] + 1]

\* solve.py:32-38
_is_on_grid(maze_map, point) ==
    LET row == point[1]
        col == point[2]
    IN  /\ 0 <= row /\ row < Len(maze_map)
        /\ 0 <= col /\ col < Len(maze_map[1])
        /\ maze_map[row + 1][col + 1] \in {EXIT, SPACE}

\* solve.py:41-53: down, up, right, left, keeping those that can be entered
_get_neighbors(maze_map, point) ==
    LET row == point[1]
        col == point[2]
        Keep(n_point) == _is_on_grid(maze_map, n_point)
    IN  SelectSeq(<< <<row + 1, col>>, <<row - 1, col>>,
                     <<row, col + 1>>, <<row, col - 1>> >>, Keep)

\* solve.py:73-79: the Manhattan distance
_get_path_cost(start, destination) ==
    Abs(start[1] - destination[1]) + Abs(start[2] - destination[2])

(***************************************************************************)
(* The priority queue of _get_path holds tuples <<f, h, point>>; get()     *)
(* returns the least one in Python's tuple order.                          *)
(***************************************************************************)
PointLess(p, q) == p[1] < q[1] \/ (p[1] = q[1] /\ p[2] < q[2])

\* the queue ordered by the distance to the exit first
EntryLessByDistance(a, b) ==
    \/ a[2] < b[2]
    \/ a[2] = b[2] /\ a[1] < b[1]
    \/ a[1] = b[1] /\ a[2] = b[2] /\ PointLess(a[3], b[3])

EntryLess(a, b) ==
    \/ a[1] < b[1]
    \/ a[1] = b[1] /\ a[2] < b[2]
    \/ a[1] = b[1] /\ a[2] = b[2] /\ PointLess(a[3], b[3])

\* the index of the entry that PriorityQueue.get() removes
MinIndex(queue) ==
    CHOOSE i \in 1..Len(queue) :
        \A j \in 1..Len(queue) :
            /\ ~EntryLess(queue[j], queue[i])
            /\ (queue[j] = queue[i] => i <= j)

RemoveAt(queue, i) == SubSeq(queue, 1, i - 1) \o SubSeq(queue, i + 1, Len(queue))

\* a dict with one key set
Put(dict, key, value) ==
    [k \in DOMAIN dict \cup {key} |-> IF k = key THEN value ELSE dict[k]]

EmptyDict == [k \in {} |-> None]

(***************************************************************************)
(* The state of one run of _get_path.  g_score and f_score hold the finite *)
(* scores only: a point outside the domain has the score float("inf") of   *)
(* solve.py:90-96.                                                         *)
(***************************************************************************)
\* solve.py:90-114
SearchInit(starting_point, exit_point) ==
    [g_score |-> Put(EmptyDict, starting_point, 0),
     f_score |-> Put(EmptyDict, starting_point,
                     _get_path_cost(starting_point, exit_point)),
     discovered_points |-> << <<_get_path_cost(starting_point, exit_point),
                                _get_path_cost(starting_point, exit_point),
                                starting_point>> >>,
     neighbors |-> EmptyDict,
     found |-> FALSE]

\* the comparison with <= in place of <
ImprovesOrEqual(temp_f_score, f_score, neighbor_point) ==
    \/ neighbor_point \notin DOMAIN f_score
    \/ temp_f_score <= f_score[neighbor_point]

\* solve.py:126: temp_f_score < f_score[neighbor_point]
Improves(temp_f_score, f_score, neighbor_point) ==
    \/ neighbor_point \notin DOMAIN f_score
    \/ temp_f_score < f_score[neighbor_point]

\* solve.py:123-136: the body of the for loop, for one neighbor
Relax(st, current_pos, neighbor_point, exit_point) ==
    LET temp_g_score == st.g_score[current_pos] + 1
        temp_f_score == temp_g_score + _get_path_cost(neighbor_point, exit_point)
    IN  IF Improves(temp_f_score, st.f_score, neighbor_point)
        THEN [st EXCEPT
                !.g_score = Put(@, neighbor_point, temp_g_score),
                !.f_score = Put(@, neighbor_point, temp_f_score),
                !.discovered_points =
                    Append(@, <<temp_f_score,
                                _get_path_cost(neighbor_point, exit_point),
                                neighbor_point>>),
                !.neighbors = Put(@, neighbor_point, current_pos)]
        ELSE st

\* solve.py:122: the for loop over the neighbors, from the i-th on
RECURSIVE RelaxAll(_, _, _, _, _)
RelaxAll(st, current_pos, nbrs, i, exit_point) ==
    IF i > Len(nbrs) THEN st
    ELSE RelaxAll(Relax(st, current_pos, nbrs[i], exit_point),
                  current_pos, nbrs, i + 1, exit_point)

\* solve.py:117-136: one turn of the while loop
SearchStep(maze_map, st, exit_point) ==
    LET i == MinIndex(st.discovered_points)
        current_pos == st.discovered_points[i][3]
        popped == [st EXCEPT !.discovered_points = RemoveAt(@, i)]
    IN  IF current_pos = exit_point
        THEN [popped EXCEPT !.found = TRUE]
        ELSE RelaxAll(popped, current_pos,
                      _get_neighbors(maze_map, current_pos), 1, exit_point)

\* solve.py:116: the while loop, until the break or the empty queue
RECURSIVE SearchRun(_, _, _)
SearchRun(maze_map, st, exit_point) ==
    IF st.found \/ st.discovered_points = <<>> THEN st
    ELSE SearchRun(maze_map, SearchStep(maze_map, st, exit_point), exit_point)

\* the trace recording for each cell the cell before it
TraceTurnForward(neighbors, backwards_path, cell) ==
    [backwards_path |-> Put(backwards_path, cell, neighbors[cell]),
     cell |-> neighbors[cell]]

\* solve.py:68-69: one turn of the while loop of the trace
TraceTurn(neighbors, backwards_path, cell) ==
    [backwards_path |-> Put(backwards_path, neighbors[cell], cell),
     cell |-> neighbors[cell]]

\* solve.py:67-69: the while loop of the trace
RECURSIVE TraceLoop(_, _, _, _)
TraceLoop(neighbors, backwards_path, cell, starting_point) ==
    IF cell = starting_point THEN backwards_path
    ELSE LET turn == TraceTurn(neighbors, backwards_path, cell)
         IN  TraceLoop(neighbors, turn.backwards_path, turn.cell, starting_point)

\* the exit recorded before it is known to have been reached
TraceUnreached(neighbors, exit_point, starting_point) ==
    IF exit_point \in DOMAIN neighbors
    THEN TraceLoop(neighbors, Put(EmptyDict, exit_point, None),
                   exit_point, starting_point)
    ELSE Put(EmptyDict, exit_point, None)

\* solve.py:56-70
_trace_path_from_exit(neighbors, exit_point, starting_point) ==
    IF exit_point \in DOMAIN neighbors
    THEN TraceLoop(neighbors, Put(EmptyDict, exit_point, None),
                   exit_point, starting_point)
    ELSE EmptyDict

\* solve.py:82-139
_get_path(maze_map, starting_point, exit_point) ==
    _trace_path_from_exit(
        SearchRun(maze_map, SearchInit(starting_point, exit_point), exit_point).neighbors,
        exit_point, starting_point)


(***************************************************************************)
(* An exception is modelled as the record [raised |-> message]; a normal   *)
(* return as a record with the field raised = "".                          *)
(***************************************************************************)
NotSolvableError(character) == "Maze not solvable: Missing " \o character

\* the points of a sequence of <<point, cell>> pairs whose cell is `character`
RECURSIVE Matching(_, _)
Matching(line, character) ==
    IF line = <<>> THEN <<>>
    ELSE (IF Head(line)[2] = character THEN <<Head(line)[1]>> ELSE <<>>)
         \o Matching(Tail(line), character)

\* solve.py:146-161: the four border lines in the order they are scanned
in_first_col(maze_map, character) ==
    Matching([i \in 1..Len(maze_map) |-> << <<i - 1, 0>>, maze_map[i][1] >>],
             character)

in_last_col(maze_map, character) ==
    Matching([i \in 1..Len(maze_map) |->
                 << <<i - 1, Len(maze_map[i]) - 1>>,
                    maze_map[i][Len(maze_map[i])] >>],
             character)

in_first_row(maze_map, character) ==
    Matching([j \in 1..Len(maze_map[1]) |-> << <<0, j - 1>>, maze_map[1][j] >>],
             character)

in_last_row(maze_map, character) ==
    Matching([j \in 1..Len(maze_map[Len(maze_map)]) |->
                 << <<Len(maze_map) - 1, j - 1>>,
                    maze_map[Len(maze_map)][j] >>],
             character)

\* the rows scanned before the columns
OpeningsRowsFirst(maze_map, character) ==
    LET openings == in_first_row(maze_map, character)
                    \o in_last_row(maze_map, character)
                    \o in_first_col(maze_map, character)
                    \o in_last_col(maze_map, character)
    IN  IF openings # <<>>
        THEN [raised |-> "", openings |-> openings]
        ELSE [raised |-> NotSolvableError(character), openings |-> <<>>]

\* solve.py:142-164
_get_openings(maze_map, character) ==
    LET openings == in_first_col(maze_map, character)
                    \o in_last_col(maze_map, character)
                    \o in_first_row(maze_map, character)
                    \o in_last_row(maze_map, character)
    IN  IF openings # <<>>
        THEN [raised |-> "", openings |-> openings]
        ELSE [raised |-> NotSolvableError(character), openings |-> <<>>]

\* the budget test with the start point counted as a move
WithinBudgetCountingStart(path, max_moves) == Cardinality(DOMAIN path) <= max_moves

\* solve.py:179: the budget test; the start point is not a move
WithinBudget(path, max_moves) == Cardinality(DOMAIN path) - 1 <= max_moves

\* solve.py:177-180: the inner loop of find_paths for one starting point.
\* acc.paths is the list `paths`; acc.calls logs every call of _get_path with
\* its result, in call order.
RECURSIVE ExitLoop(_, _, _, _, _, _)
ExitLoop(maze_map, max_moves, starting_point, exits, j, acc) ==
    IF j > Len(exits) THEN acc
    ELSE LET path == _get_path(maze_map, starting_point, exits[j])
             logged == Append(acc.calls, [starting_point |-> starting_point,
                                          exit_point |-> exits[j],
                                          path |-> path])
         IN  ExitLoop(maze_map, max_moves, starting_point, exits, j + 1,
                      [acc EXCEPT
                          !.calls = logged,
                          !.paths = IF DOMAIN path # {} /\ WithinBudget(path, max_moves)
                                    THEN Append(@, path) ELSE @])

\* solve.py:176-180: the outer loop; _get_openings(maze_map, EXIT) is called
\* again for every starting point and raises when there is no exit
RECURSIVE StartLoop(_, _, _, _, _)
StartLoop(maze_map, max_moves, starts, i, acc) ==
    IF i > Len(starts) THEN acc
    ELSE LET exits == _get_openings(maze_map, EXIT)
         IN  IF exits.raised # ""
             THEN [raised |-> exits.raised, paths |-> <<>>, calls |-> acc.calls]
             ELSE StartLoop(maze_map, max_moves, starts, i + 1,
                            ExitLoop(maze_map, max_moves, starts[i],
                                     exits.openings, 1, acc))

\* the exits looked up before the starts
FindPathsExitsFirst(maze_map, max_moves) ==
    LET exits == _get_openings(maze_map, EXIT)
        starts == _get_openings(maze_map, START)
    IN  IF exits.raised # ""
        THEN [raised |-> exits.raised, paths |-> <<>>, calls |-> <<>>]
        ELSE IF starts.raised # ""
        THEN [raised |-> starts.raised, paths |-> <<>>, calls |-> <<>>]
        ELSE StartLoop(maze_map, max_moves, starts.openings, 1,
                       [raised |-> "", paths |-> <<>>, calls |-> <<>>])

\* solve.py:167-181
find_paths(maze_map, max_moves) ==
    LET starts == _get_openings(maze_map, START)
    IN  IF starts.raised # ""
        THEN [raised |-> starts.raised, paths |-> <<>>, calls |-> <<>>]
        ELSE StartLoop(maze_map, max_moves, starts.openings, 1,
                       [raised |-> "", paths |-> <<>>, calls |-> <<>>])

\* the first candidate instead of the shortest
FirstPath(solutions) ==
    IF solutions = <<>> THEN EmptyDict ELSE solutions[1]

\* solve.py:228: min(solutions, key=len), the first of the shortest; [] if none
BestPath(solutions) ==
    IF solutions = <<>> THEN EmptyDict
    ELSE solutions[CHOOSE i \in 1..Len(solutions) :
            \A j \in 1..Len(solutions) :
                /\ Cardinality(DOMAIN solutions[i]) <= Cardinality(DOMAIN solutions[j])
                /\ (Cardinality(DOMAIN solutions[j]) = Cardinality(DOMAIN solutions[i])
                        => i <= j)]

\* the visited marker written over spaces only
RenderSpaces(maze_map, best_path) ==
    [i \in 1..Len(maze_map) |->
        [j \in 1..Len(maze_map[i]) |->
            IF <<i - 1, j - 1>> \in DOMAIN best_path /\ maze_map[i][j] = SPACE
            THEN VISITED ELSE maze_map[i][j]]]

\* solve.py:229-234: the cells of best_path overwritten by the visited marker
Render(maze_map, best_path) ==
    [i \in 1..Len(maze_map) |->
        [j \in 1..Len(maze_map[i]) |->
            IF <<i - 1, j - 1>> \in DOMAIN best_path
            THEN VISITED ELSE maze_map[i][j]]]

\* solve.py:219-235, the maze being the lines read from the file
solve(maze_map, max_moves) ==
    LET found == find_paths(maze_map, max_moves)
        best_path == BestPath(found.paths)
    IN  IF found.raised # ""
        THEN [raised |-> found.raised, solutions |-> <<>>, calls |-> found.calls,
              best_path |-> EmptyDict, maze_map |-> maze_map]
        ELSE [raised |-> "", solutions |-> found.paths, calls |-> found.calls,
              best_path |-> best_path, maze_map |-> Render(maze_map, best_path)]

\* solve.py:245
Tiers == <<38, 150, 200>>

\* solve.py:248: sum(row.count("█") for row in solved_maze) - 2
CountMoves(solved_maze) ==
    Cardinality({p \in UNION {{<<i, j>> : j \in 1..Len(solved_maze[i])} :
                              i \in 1..Len(solved_maze)} :
                    solved_maze[p[1]][p[2]] = VISITED}) - 2


(***************************************************************************)
(* The inputs.                                                             *)
(***************************************************************************)
\* the largest number of cells of an exhaustively enumerated maze of walls
\* and spaces (the search) and of all four glyphs (the program)
MaxCells == 8
MaxMazeCells == 4
\* the largest number of cells of a sample maze that are overwritten
MaxEdits == 1
\* the largest max_moves handed to solve directly
MaxBudget == 4

Glyphs == {WALL, SPACE, START, EXIT}

Shapes(cells) == {rc \in (1..cells) \X (1..cells) : rc[1] * rc[2] <= cells}

MazesOver(glyphs, cells) ==
    UNION {[1..rc[1] -> [1..rc[2] -> glyphs]] : rc \in Shapes(cells)}

Points(m) == (0..(Len(m) - 1)) \X (0..(Len(m[1]) - 1))

\* tests/test_solve.py:73
TestMaze ==
    << <<"#","#","#","#","#","#","E","#">>,
       <<"#"," "," "," "," "," "," ","#">>,
       <<"#"," ","#","#","#","#"," ","#">>,
       <<"#"," ","#","#","#","#"," ","#">>,
       <<"#"," "," "," "," "," "," ","#">>,
       <<"#","#","#","#","#","#","^","#">> >>

\* a small maze with an exit glyph inside it
SmallMaze ==
    << <<"#","E","#","#">>,
       <<"#"," ","E","#">>,
       <<"#"," "," ","#">>,
       <<"#","^","#","#">> >>

\* a corridor of 40 moves from its start to its exit
LongMaze ==
    << <<"#","^","#","#","#","#","#","#","#","#","#">>,
       <<"#"," ","#"," "," "," ","#"," "," "," ","#">>,
       <<"#"," ","#"," ","#"," ","#"," ","#"," ","#">>,
       <<"#"," ","#"," ","#"," ","#"," ","#"," ","#">>,
       <<"#"," ","#"," ","#"," ","#"," ","#"," ","#">>,
       <<"#"," ","#"," ","#"," ","#"," ","#"," ","#">>,
       <<"#"," ","#"," ","#"," ","#"," ","#"," ","#">>,
       <<"#"," "," "," ","#"," "," "," ","#"," ","#">>,
       <<"#","#","#","#","#","#","#","#","#","E","#">> >>

\* the mazes that differ from m in at most k cells
RECURSIVE Edits(_, _)
Edits(m, k) ==
    IF k = 0 THEN {m}
    ELSE LET less == Edits(m, k - 1)
         IN  less \cup {[e EXCEPT ![p[1] + 1][p[2] + 1] = g] :
                            e \in less, p \in Points(m), g \in Glyphs}

Mazes ==
    MazesOver(Glyphs, MaxMazeCells) \cup Edits(SmallMaze, MaxEdits)
        \cup {TestMaze, LongMaze}

VARIABLES
    maze_map,          \* the maze, as read from the file
    pc,                \* where the program is
    max_moves,         \* the argument of solve
    character,         \* the argument of _get_openings
    result,            \* what the last call returned or raised
    tier,              \* main: the index in Tiers of the next attempt
    printed,           \* main: the lines printed so far
    starting_point,    \* _get_path: its arguments
    exit_point,
    search,            \* _get_path: g_score, f_score, discovered_points, neighbors
    current_pos,       \* _get_path: the point popped last
    todo,              \* _get_path: the neighbors the for loop has yet to visit
    backwards_path,    \* _trace_path_from_exit: the path built so far
    cell               \* _trace_path_from_exit: the cell the trace stands on

vars == <<maze_map, pc, max_moves, character, result, tier, printed, starting_point,
          exit_point, search, current_pos, todo, backwards_path, cell>>

programVars == <<max_moves, character, result, tier, printed>>
searchVars == <<starting_point, exit_point, search, current_pos, todo,
                backwards_path, cell>>

NoResult == [raised |-> ""]

ProgramIdle ==
    /\ max_moves = 0 /\ character = "" /\ result = NoResult
    /\ tier = 0 /\ printed = <<>>

SearchIdle ==
    /\ starting_point = None /\ exit_point = None /\ search = NoResult
    /\ current_pos = None /\ todo = <<>> /\ backwards_path = EmptyDict
    /\ cell = None

(***************************************************************************)
(* The program: a maze is read, and one of its entry points runs.          *)
(***************************************************************************)
Init ==
    /\ maze_map \in Mazes
    /\ pc = "ready"
    /\ ProgramIdle
    /\ SearchIdle

\* a call of _get_openings(maze_map, character)
GetOpenings(glyph) ==
    /\ pc = "ready"
    /\ pc' = "_get_openings"
    /\ character' = glyph
    /\ result' = _get_openings(maze_map, glyph)
    /\ UNCHANGED <<maze_map, max_moves, tier, printed, searchVars>>

\* a call of solve on the file of maze_map
Solve(budget) ==
    /\ pc = "ready"
    /\ pc' = "solve"
    /\ max_moves' = budget
    /\ result' = solve(maze_map, budget)
    /\ UNCHANGED <<maze_map, character, tier, printed, searchVars>>

\* solve.py:245-252: one turn of the loop of main
MainTier ==
    /\ pc \in {"ready", "main"}
    /\ tier < Len(Tiers)
    /\ LET attempt == solve(maze_map, Tiers[tier + 1])
       IN  /\ max_moves' = Tiers[tier + 1]
           /\ result' = attempt
           /\ tier' = tier + 1
           /\ IF attempt.raised # ""
              THEN /\ pc' = "main_raised"
                   /\ printed' = printed
              ELSE IF DOMAIN attempt.best_path # {}
              THEN /\ pc' = "main_done"
                   /\ printed' = Append(printed,
                          [found |-> TRUE, max_moves |-> Tiers[tier + 1],
                           moves |-> CountMoves(attempt.maze_map),
                           maze |-> attempt.maze_map])
              ELSE /\ pc' = IF tier + 1 = Len(Tiers) THEN "main_done" ELSE "main"
                   /\ printed' = Append(printed,
                          [found |-> FALSE, max_moves |-> Tiers[tier + 1]])
    /\ UNCHANGED <<maze_map, character, searchVars>>

Next ==
    \/ \E glyph \in {START, EXIT} : GetOpenings(glyph)
    \/ \E budget \in 0..MaxBudget : Solve(budget)
    \/ MainTier

Spec == Init /\ [][Next]_vars

(***************************************************************************)
(* One run of _get_path, statement by statement.                           *)
(***************************************************************************)
\* tests/test_solve.py:80
BlockedMaze ==
    << <<"#","#","#","#","#","#","E","#">>,
       <<"#"," ","#"," "," "," "," ","#">>,
       <<"#"," ","#","#","#","#"," ","#">>,
       <<"#"," ","#","#","#","#","#","#">>,
       <<"#"," "," "," "," "," "," ","#">>,
       <<"#","#","#","#","#","#","^","#">> >>

\* a maze in which a search from <<1, 4>> to <<0, 0>> first runs into a dead
\* end, and then pushes a point a second time with a smaller f_score
DeadEndMaze ==
    << <<" ","#"," "," "," ">>,
       <<" "," "," "," ","#">> >>

SearchMazes ==
    MazesOver({WALL, SPACE}, MaxCells) \cup {TestMaze, BlockedMaze, DeadEndMaze}

SInit ==
    /\ maze_map \in SearchMazes
    /\ starting_point \in Points(maze_map)
    /\ exit_point \in Points(maze_map)
    /\ search = SearchInit(starting_point, exit_point)
    /\ pc = "while"
    /\ current_pos = None /\ todo = <<>> /\ backwards_path = EmptyDict
    /\ cell = None
    /\ ProgramIdle

\* solve.py:116-120: the queue is not empty; pop, and break at the exit
Pop ==
    /\ pc = "while"
    /\ search.discovered_points # <<>>
    /\ LET i == MinIndex(search.discovered_points)
           popped == search.discovered_points[i][3]
       IN  /\ current_pos' = popped
           /\ search' = [search EXCEPT !.discovered_points = RemoveAt(@, i),
                                       !.found = (popped = exit_point)]
           /\ todo' = IF popped = exit_point THEN <<>>
                      ELSE _get_neighbors(maze_map, popped)
           /\ pc' = IF popped = exit_point THEN "break"
                    ELSE IF _get_neighbors(maze_map, popped) = <<>> THEN "while"
                    ELSE "for"
    /\ UNCHANGED <<maze_map, programVars, starting_point, exit_point,
                   backwards_path, cell>>

\* solve.py:122-136: the for loop visits its next neighbor
RelaxNext ==
    /\ pc = "for"
    /\ search' = Relax(search, current_pos, Head(todo), exit_point)
    /\ todo' = Tail(todo)
    /\ pc' = IF Tail(todo) = <<>> THEN "while" ELSE "for"
    /\ UNCHANGED <<maze_map, programVars, starting_point, exit_point,
                   current_pos, backwards_path, cell>>

\* solve.py:138, 62-66: the loop is left, the trace begins
TraceStart ==
    /\ \/ pc = "break"
       \/ pc = "while" /\ search.discovered_points = <<>>
    /\ IF exit_point \in DOMAIN search.neighbors
       THEN /\ backwards_path' = Put(EmptyDict, exit_point, None)
            /\ cell' = exit_point
            /\ pc' = "trace"
       ELSE /\ backwards_path' = EmptyDict
            /\ cell' = cell
            /\ pc' = "done"
    /\ UNCHANGED <<maze_map, programVars, starting_point, exit_point, search,
                   current_pos, todo>>

\* solve.py:67-69: one turn of the while loop of the trace
TraceStep ==
    /\ pc = "trace"
    /\ cell # starting_point
    /\ backwards_path' = TraceTurn(search.neighbors, backwards_path, cell).backwards_path
    /\ cell' = TraceTurn(search.neighbors, backwards_path, cell).cell
    /\ UNCHANGED <<maze_map, pc, programVars, starting_point, exit_point,
                   search, current_pos, todo>>

\* solve.py:70, 139: the path is returned
TraceEnd ==
    /\ pc = "trace"
    /\ cell = starting_point
    /\ pc' = "done"
    /\ UNCHANGED <<maze_map, programVars, searchVars>>

SNext == Pop \/ RelaxNext \/ TraceStart \/ TraceStep \/ TraceEnd

\* the interpreter runs the next statement as long as there is one
SearchSpec == SInit /\ [][SNext]_vars /\ WF_vars(SNext)

(***************************************************************************)
(* Reference notions, defined from the maze alone.                         *)
(***************************************************************************)
Traversable(m, p) == p \in Points(m) /\ m[p[1] + 1][p[2] + 1] \in {SPACE, EXIT}

Adjacent(p, q) == Abs(p[1] - q[1]) + Abs(p[2] - q[2]) = 1

Manhattan(p, q) == Abs(p[1] - q[1]) + Abs(p[2] - q[2])

\* breadth-first search by layers: the layer number of target, or -1
RECURSIVE BfsDistance(_, _, _, _, _)
BfsDistance(m, frontier, seen, target, d) ==
    IF target \in frontier THEN d
    ELSE IF frontier = {} THEN -1
    ELSE LET next == {q \in Points(m) \ seen :
                         Traversable(m, q) /\ \E p \in frontier : Adjacent(p, q)}
         IN  BfsDistance(m, next, seen \cup next, target, d + 1)

\* the least number of moves from s to e through traversable cells, or -1
Distance(m, s, e) == BfsDistance(m, {s}, {s}, e, 0)

\* the number of steps from p to target along the values of map, or -1 when
\* a value outside the keys is met first or the fuel runs out
RECURSIVE Steps(_, _, _, _)
Steps(map, p, target, fuel) ==
    IF p = target THEN 0
    ELSE IF fuel = 0 \/ p \notin DOMAIN map THEN -1
    ELSE LET rest == Steps(map, map[p], target, fuel - 1)
         IN  IF rest < 0 THEN -1 ELSE rest + 1

StepsAlong(map, from, to) == Steps(map, from, to, Cardinality(DOMAIN map))

\* the cells strictly after p on the straight line from p to q, q included
Segment(p, q) ==
    {c \in (0..(p[1] + q[1])) \X (0..(p[2] + q[2])) :
        /\ c # p
        /\ Manhattan(p, c) + Manhattan(c, q) = Manhattan(p, q)}

StraightLine(m, p, q) ==
    /\ p[1] = q[1] \/ p[2] = q[2]
    /\ \A c \in Segment(p, q) : Traversable(m, c)

Queue == search.discovered_points

\* an entry of the queue whose priority is no longer the f_score of its point
StaleEntry(entry) == entry[1] > search.f_score[entry[3]]

(***************************************************************************)
(* C2: when the exit is traversable and reachable from a different start,  *)
(* the path returned by the search has d + 1 keys, d being the             *)
(* breadth-first distance; the keys are the cells of a walk from the start *)
(* to the exit whose steps are moves to adjacent traversable cells; and on *)
(* an obstacle-free straight line d is the Manhattan distance.             *)
(***************************************************************************)
C2_ShortestPath ==
    (/\ pc = "done"
     /\ starting_point # exit_point
     /\ Traversable(maze_map, exit_point)
     /\ Distance(maze_map, starting_point, exit_point) >= 0)
    => LET d == Distance(maze_map, starting_point, exit_point)
           keys == DOMAIN backwards_path
       IN  /\ Cardinality(keys) = d + 1
           /\ StepsAlong(backwards_path, starting_point, exit_point) = d
           /\ \A k \in keys \ {exit_point} :
                 /\ Adjacent(k, backwards_path[k])
                 /\ Traversable(maze_map, backwards_path[k])
           /\ StraightLine(maze_map, starting_point, exit_point)
                 => Cardinality(keys) - 1 = Manhattan(starting_point, exit_point)

\* a search that found its exit and left a stale entry in its queue
C2_Witness ==
    /\ pc = "done"
    /\ starting_point # exit_point
    /\ Distance(maze_map, starting_point, exit_point) >= 0
    /\ DOMAIN backwards_path # {}
    /\ \E i \in 1..Len(Queue) : StaleEntry(Queue[i])

(***************************************************************************)
(* C8 as stated: a returned map is empty, or the exit maps to None, every  *)
(* other key maps to its predecessor on the path from the start, and       *)
(* following the values from the exit ends at the start after N steps,     *)
(* N being the number of entries less one.                                 *)
(***************************************************************************)
C8_FromExitToStart ==
    pc = "done" =>
        \/ DOMAIN backwards_path = {}
        \/ /\ backwards_path[exit_point] = None
           /\ \A k \in DOMAIN backwards_path \ {exit_point, starting_point} :
                 backwards_path[k] = search.neighbors[k]
           /\ StepsAlong(backwards_path, exit_point, starting_point)
                 = Cardinality(DOMAIN backwards_path) - 1

(***************************************************************************)
(* C8 as amended: a returned map is empty, or the exit maps to None, every *)
(* other key maps to the key that follows it on the way to the exit (the   *)
(* cell from which the trace stepped back to it), and following the values *)
(* from the start ends at the exit after N steps.                          *)
(***************************************************************************)
C8_FromStartToExit ==
    pc = "done" =>
        \/ DOMAIN backwards_path = {}
        \/ /\ backwards_path[exit_point] = None
           /\ \A k \in DOMAIN backwards_path \ {exit_point} :
                 /\ backwards_path[k] \in DOMAIN backwards_path
                 /\ search.neighbors[backwards_path[k]] = k
           /\ StepsAlong(backwards_path, starting_point, exit_point)
                 = Cardinality(DOMAIN backwards_path) - 1

\* a returned path with cells between its start and its exit
C8_Witness ==
    /\ pc = "done"
    /\ Cardinality(DOMAIN backwards_path) >= 4
    /\ backwards_path[exit_point] = None

(***************************************************************************)
(* C9: a search terminates.  A point is pushed only when its f_score gets  *)
(* strictly smaller; every point with a recorded predecessor has a g_score *)
(* greater than its predecessor's, and the start has no predecessor; a     *)
(* statement that is not the last always has a next one to run; and every  *)
(* step lowers a measure that cannot fall forever.                         *)
(***************************************************************************)
Phase(at) == IF at = "done" THEN 0 ELSE IF at = "trace" THEN 1 ELSE 2

\* f is below g: every score g holds is held by f, and none is larger in f
\* (a point without a score has the score float("inf"))
ScoresBelow(f, g) ==
    /\ DOMAIN g \subseteq DOMAIN f
    /\ \A p \in DOMAIN g : f[p] <= g[p]

\* the step lowers <<phase, f_score, queue length, neighbors left, g_score of
\* the cell of the trace>> in the lexicographic order, the f_scores being
\* ordered pointwise
MeasureFalls ==
    \/ Phase(pc') < Phase(pc)
    \/ /\ Phase(pc') = Phase(pc)
       /\ ScoresBelow(search'.f_score, search.f_score)
       /\ \/ search'.f_score # search.f_score
          \/ Len(search'.discovered_points) < Len(search.discovered_points)
          \/ /\ Len(search'.discovered_points) = Len(search.discovered_points)
             /\ Len(todo') < Len(todo)
          \/ /\ Len(search'.discovered_points) = Len(search.discovered_points)
             /\ Len(todo') = Len(todo)
             /\ pc = "trace"
             /\ search.g_score[cell'] < search.g_score[cell]

\* the measure cannot fall forever: the scores are naturals of points of the
\* maze
MeasureIsBounded ==
    /\ DOMAIN search.f_score \subseteq Points(maze_map)
    /\ DOMAIN search.g_score = DOMAIN search.f_score
    /\ \A p \in DOMAIN search.f_score :
          search.f_score[p] \in Nat /\ search.g_score[p] \in Nat

PushedOnlyOnDecrease ==
    Len(search'.discovered_points) > Len(search.discovered_points) =>
        LET entry == search'.discovered_points[Len(search'.discovered_points)]
            point == entry[3]
        IN  /\ Len(search'.discovered_points) = Len(search.discovered_points) + 1
            /\ entry[1] = search'.f_score[point]
            /\ \/ point \notin DOMAIN search.f_score
               \/ search'.f_score[point] < search.f_score[point]

PredecessorOrder ==
    /\ starting_point \notin DOMAIN search.neighbors
    /\ \A p \in DOMAIN search.neighbors :
          /\ search.neighbors[p] \in DOMAIN search.g_score
          /\ search.g_score[p] > search.g_score[search.neighbors[p]]

NeverStuck ==
    /\ pc = "for" => todo # <<>> /\ current_pos \in DOMAIN search.g_score
    /\ pc = "trace" =>
          /\ cell \in DOMAIN search.g_score
          /\ cell = starting_point \/ cell \in DOMAIN search.neighbors
    /\ pc \in {"while", "for", "break", "trace", "done"}

C9_Terminates ==
    /\ [](PredecessorOrder /\ NeverStuck /\ MeasureIsBounded)
    /\ [][PushedOnlyOnDecrease]_vars
    /\ [][MeasureFalls]_vars

\* a search that stopped at the pop of the exit with entries left in its
\* queue, and whose trace has reached the start
C9_Witness ==
    /\ pc = "done"
    /\ cell = starting_point
    /\ Cardinality(DOMAIN backwards_path) >= 3
    /\ Queue # <<>>

(***************************************************************************)
(* Reference notions for the program, defined from the maze alone.         *)
(***************************************************************************)
Rows(m) == Len(m)
Cols(m) == Len(m[1])

FirstColumn(m) == [i \in 1..Rows(m) |-> <<i - 1, 0>>]
LastColumn(m) == [i \in 1..Rows(m) |-> <<i - 1, Cols(m) - 1>>]
FirstRow(m) == [j \in 1..Cols(m) |-> <<0, j - 1>>]
LastRow(m) == [j \in 1..Cols(m) |-> <<Rows(m) - 1, j - 1>>]

Holding(m, line, glyph) ==
    LET Holds(p) == m[p[1] + 1][p[2] + 1] = glyph
    IN  SelectSeq(line, Holds)

\* the openings in the order of the four border lines
BorderOpenings(m, glyph) ==
    Holding(m, FirstColumn(m), glyph) \o Holding(m, LastColumn(m), glyph)
        \o Holding(m, FirstRow(m), glyph) \o Holding(m, LastRow(m), glyph)

\* the number of the four border lines the point lies on
LinesThrough(m, p) ==
    (IF p[2] = 0 THEN 1 ELSE 0) + (IF p[2] = Cols(m) - 1 THEN 1 ELSE 0)
        + (IF p[1] = 0 THEN 1 ELSE 0) + (IF p[1] = Rows(m) - 1 THEN 1 ELSE 0)

IsCorner(m, p) == p[1] \in {0, Rows(m) - 1} /\ p[2] \in {0, Cols(m) - 1}

OnBorder(m, glyph) ==
    \E p \in Points(m) : LinesThrough(m, p) > 0 /\ m[p[1] + 1][p[2] + 1] = glyph

Inside(m, glyph) ==
    \E p \in Points(m) : LinesThrough(m, p) = 0 /\ m[p[1] + 1][p[2] + 1] = glyph

Count(seq, x) == Cardinality({i \in DOMAIN seq : seq[i] = x})

Moves(path) == Cardinality(DOMAIN path) - 1

\* the pairs <<start, exit>> in the order find_paths visits them
RECURSIVE Cross(_, _)
Cross(starts, exits) ==
    IF starts = <<>> THEN <<>>
    ELSE [j \in 1..Len(exits) |-> <<Head(starts), exits[j]>>]
         \o Cross(Tail(starts), exits)

\* path is a path of the pair: it holds the start, and its exit maps to None
PathOf(path, pair) ==
    /\ pair[1] \in DOMAIN path
    /\ pair[2] \in DOMAIN path
    /\ path[pair[2]] = None

\* short is long with some of its elements left out
RECURSIVE IsSubSeq(_, _)
IsSubSeq(short, long) ==
    \/ short = <<>>
    \/ /\ long # <<>>
       /\ \/ Head(short) = Head(long) /\ IsSubSeq(Tail(short), Tail(long))
          \/ IsSubSeq(short, Tail(long))

Returned == pc = "solve" /\ result.raised = ""

(***************************************************************************)
(* C1: on a maze with a start and an exit on its border, solve returns a   *)
(* path of the first pair, in the order starts outer and exits inner,      *)
(* whose breadth-first distance is the least of all pairs, with that many  *)
(* moves, when that distance is within max_moves; and the empty solution   *)
(* exactly when no pair has a distance within max_moves.                   *)
(***************************************************************************)
C1_SolveReturnsShortest ==
    (pc = "solve" /\ OnBorder(maze_map, START) /\ OnBorder(maze_map, EXIT)) =>
        LET pairs == Cross(BorderOpenings(maze_map, START),
                           BorderOpenings(maze_map, EXIT))
            dist == [i \in 1..Len(pairs) |->
                        Distance(maze_map, pairs[i][1], pairs[i][2])]
            within == {i \in 1..Len(pairs) : dist[i] >= 0 /\ dist[i] <= max_moves}
            best == result.best_path
        IN  /\ result.raised = ""
            /\ (DOMAIN best = {}) <=> (within = {})
            /\ within # {} =>
                  LET first == CHOOSE i \in within :
                                  \A j \in within :
                                      /\ dist[i] <= dist[j]
                                      /\ dist[j] = dist[i] => i <= j
                  IN  /\ Moves(best) = dist[first]
                      /\ PathOf(best, pairs[first])
                      /\ StepsAlong(best, pairs[first][1], pairs[first][2])
                            = dist[first]

\* solve chose a path shorter than the first candidate, and another
\* candidate is as short as the chosen one
C1_Witness ==
    /\ Returned
    /\ result.solutions # <<>>
    /\ Moves(result.best_path) < Moves(result.solutions[1])
    /\ \E k \in 1..Len(result.solutions) :
          /\ Moves(result.solutions[k]) = Moves(result.best_path)
          /\ result.solutions[k] # result.best_path

(***************************************************************************)
(* C3: a pair of openings that no path of traversable cells connects gets  *)
(* the empty map from the search, and no candidate of find_paths is a path *)
(* of that pair, whatever max_moves is.                                    *)
(***************************************************************************)
C3_NoPathNoCandidate ==
    Returned =>
        \A i \in 1..Len(result.calls) :
            LET call == result.calls[i]
            IN  Distance(maze_map, call.starting_point, call.exit_point) < 0 =>
                    /\ DOMAIN call.path = {}
                    /\ \A k \in 1..Len(result.solutions) :
                          ~PathOf(result.solutions[k],
                                  <<call.starting_point, call.exit_point>>)

\* find_paths searched a pair without a path and returned a candidate of
\* another pair
C3_Witness ==
    /\ Returned
    /\ result.solutions # <<>>
    /\ \E i \in 1..Len(result.calls) :
          /\ Distance(maze_map, result.calls[i].starting_point,
                      result.calls[i].exit_point) < 0
          /\ DOMAIN result.calls[i].path = {}

(***************************************************************************)
(* C4: the candidates of find_paths are the non-empty search results, in   *)
(* the order of the searches (starts outer, exits inner), whose number of  *)
(* moves is at most max_moves; and they are a sub-sequence of the          *)
(* candidates for the next larger max_moves.                               *)
(***************************************************************************)
C4_BudgetFilter ==
    Returned =>
        LET Kept(call) == DOMAIN call.path # {} /\ Moves(call.path) <= max_moves
            kept == SelectSeq(result.calls, Kept)
        IN  /\ [i \in 1..Len(result.calls) |->
                   <<result.calls[i].starting_point, result.calls[i].exit_point>>]
                  = Cross(BorderOpenings(maze_map, START),
                          BorderOpenings(maze_map, EXIT))
            /\ result.solutions = [i \in 1..Len(kept) |-> kept[i].path]
            /\ IsSubSeq(result.solutions, find_paths(maze_map, max_moves + 1).paths)

\* a path of exactly max_moves moves was kept and one of max_moves + 1 dropped
C4_Witness ==
    /\ Returned
    /\ \E k \in 1..Len(result.solutions) : Moves(result.solutions[k]) = max_moves
    /\ \E i \in 1..Len(result.calls) :
          Moves(result.calls[i].path) = max_moves + 1

OpeningsReturned == pc = "_get_openings" /\ result.raised = ""

\* what _get_openings returns, and what find_paths searches, but for the
\* number of times a corner is reported
OpeningsInOrder ==
    /\ OpeningsReturned =>
          /\ result.openings = BorderOpenings(maze_map, character)
          /\ \A p \in Points(maze_map) :
                Count(result.openings, p) =
                    IF maze_map[p[1] + 1][p[2] + 1] = character
                    THEN LinesThrough(maze_map, p) ELSE 0
    /\ Returned =>
          [i \in 1..Len(result.calls) |->
              <<result.calls[i].starting_point, result.calls[i].exit_point>>]
            = Cross(BorderOpenings(maze_map, START), BorderOpenings(maze_map, EXIT))

(***************************************************************************)
(* C5 as stated: _get_openings returns the matching cells of the first     *)
(* column, the last column, the first row and the last row, in this order; *)
(* no cell inside the maze is returned; a matching cell is returned once   *)
(* for every border line it lies on, so that a matching corner is returned *)
(* twice; and find_paths searches every returned pair, repeated or not.    *)
(***************************************************************************)
C5_CornerTwice ==
    /\ OpeningsInOrder
    /\ OpeningsReturned =>
          \A p \in Points(maze_map) :
              (IsCorner(maze_map, p) /\ maze_map[p[1] + 1][p[2] + 1] = character)
                  => Count(result.openings, p) = 2

(***************************************************************************)
(* C5 as amended: as stated, but a matching corner is returned twice in a  *)
(* maze of at least two rows and two columns; in a maze of one row or one  *)
(* column a corner lies on three or four of the scanned lines and is       *)
(* returned as many times.                                                 *)
(***************************************************************************)
C5_OncePerBorderLine ==
    /\ OpeningsInOrder
    /\ OpeningsReturned =>
          \A p \in Points(maze_map) :
              (IsCorner(maze_map, p) /\ maze_map[p[1] + 1][p[2] + 1] = character)
                  => Count(result.openings, p) =
                        IF Rows(maze_map) >= 2 /\ Cols(maze_map) >= 2 THEN 2
                        ELSE IF Rows(maze_map) >= 2 \/ Cols(maze_map) >= 2 THEN 3
                        ELSE 4

\* _get_openings returned a corner twice and left out a cell inside the maze
\* that holds the glyph
C5_Witness ==
    /\ OpeningsReturned
    /\ Inside(maze_map, character)
    /\ \E p \in Points(maze_map) :
          IsCorner(maze_map, p) /\ Count(result.openings, p) = 2

(***************************************************************************)
(* C6: with no start glyph on the border, _get_openings, find_paths, solve *)
(* and main fail with "Maze not solvable: Missing ^"; with a start but no  *)
(* exit glyph on the border they fail with "Maze not solvable: Missing E"; *)
(* glyphs inside the maze do not count; and no search has been run.        *)
(***************************************************************************)
C6_MissingMarker ==
    LET missing == IF ~OnBorder(maze_map, START) THEN START
                   ELSE IF ~OnBorder(maze_map, EXIT) THEN EXIT
                   ELSE ""
    IN  /\ (pc = "_get_openings" /\ ~OnBorder(maze_map, character)) =>
              /\ character = START => result.raised = "Maze not solvable: Missing ^"
              /\ character = EXIT => result.raised = "Maze not solvable: Missing E"
        /\ (pc = "solve" /\ missing # "") =>
              /\ missing = START => result.raised = "Maze not solvable: Missing ^"
              /\ missing = EXIT => result.raised = "Maze not solvable: Missing E"
              /\ result.calls = <<>>
              /\ result.solutions = <<>>
        /\ (pc \in {"main", "main_done", "main_raised"} /\ missing # "") =>
              /\ pc = "main_raised"
              /\ tier = 1
              /\ printed = <<>>
              /\ result.raised # ""
              /\ result.calls = <<>>

\* solve failed on a maze with a start on its border and its only exit
\* glyphs inside
C6_Witness ==
    /\ pc = "solve"
    /\ OnBorder(maze_map, START)
    /\ ~OnBorder(maze_map, EXIT)
    /\ Inside(maze_map, EXIT)
    /\ result.raised = "Maze not solvable: Missing E"

(***************************************************************************)
(* C7: in the maze solve returns, the cells of the keys of the winning map *)
(* hold the visited marker, whatever they held, every other cell is the    *)
(* cell of the maze read, and the rows are as many and as long as before;  *)
(* with the empty solution the maze is returned as read.                   *)
(***************************************************************************)
C7_RenderFrame ==
    Returned =>
        LET solved == result.maze_map
            keys == DOMAIN result.best_path
        IN  /\ Len(solved) = Len(maze_map)
            /\ \A i \in 1..Len(maze_map) :
                  /\ Len(solved[i]) = Len(maze_map[i])
                  /\ \A j \in 1..Len(maze_map[i]) :
                        IF <<i - 1, j - 1>> \in keys
                        THEN solved[i][j] = VISITED
                        ELSE solved[i][j] = maze_map[i][j]
            /\ keys \subseteq Points(maze_map)
            /\ keys = {} => solved = maze_map

\* a winning path over a start, a space and an exit, in a maze with cells
\* off the path
C7_Witness ==
    /\ Returned
    /\ \E p, q, r \in DOMAIN result.best_path :
          /\ maze_map[p[1] + 1][p[2] + 1] = START
          /\ maze_map[q[1] + 1][q[2] + 1] = SPACE
          /\ maze_map[r[1] + 1][r[2] + 1] = EXIT
    /\ \E p \in Points(maze_map) :
          /\ p \notin DOMAIN result.best_path
          /\ maze_map[p[1] + 1][p[2] + 1] = SPACE

(***************************************************************************)
(* C10: the number of moves main prints for a solution is the number of    *)
(* moves of the winning path that find_paths compared with max_moves: the  *)
(* number of its entries less one.                                         *)
(***************************************************************************)
C10_ReportedMoves ==
    (pc = "main_done" /\ printed # <<>> /\ printed[Len(printed)].found) =>
        printed[Len(printed)].moves = Moves(result.best_path)
====
